---- MODULE Spec2Model ----
(***************************************************************************)
(* Wallet balance tracker: the transaction ledger, the balance fold        *)
(* (calculate_wallet_balance), the history fold                            *)
(* (print_transaction_history) and the Display formats of src/src/lib.rs,  *)
(* and the interactive terminal (WalletTerminal) of                        *)
(* src/src/terminal/mod.rs.                                                *)
(*                                                                         *)
(* Text is a sequence of one-character strings, so that trimming, integer  *)
(* parsing and formatting are computed and not assumed.                    *)
(*                                                                         *)
(* Amounts and balances are i64.  TLC's own integers are narrower than     *)
(* that, so an integer v is written in three parts of nine decimal digits, *)
(* [hi |-> h, mid |-> m, lo |-> l] standing for v = h*10^18 + m*10^9 + l   *)
(* with 0 <= m, l < 10^9: 30 is [hi |-> 0, mid |-> 0, lo |-> 30], i64::MAX *)
(* is [hi |-> 9, mid |-> 223372036, lo |-> 854775807].  Every i64 value    *)
(* has one such form; sums, differences and comparisons are exact, and so  *)
(* is the test whether a sum still fits in i64.                            *)
(***************************************************************************)
EXTENDS Integers, Sequences, FiniteSets, TLC

VARIABLES
    transactions,     \* the ledger: WalletTerminal.transactions / the slice passed to the core
    pc,               \* "menu" | "exited" (terminal session), "call" (direct calls of the core),
                      \* "panicked" (the process was ended by a panic)
    op,               \* the last operation performed and the inputs it read
    result,           \* what the last operation's calculate_wallet_balance call returned, if it made one
    history,          \* the lines the last operation's print_transaction_history call printed, if it made one
    events,           \* the log events the last operation's calculate_wallet_balance call emitted
    message,          \* what the terminal printed last
    overflow_checks   \* the build's overflow-checks setting: TRUE in the dev profile, FALSE in release

vars == <<transactions, pc, op, result, history, events, message, overflow_checks>>

---------------------------------------------------------------------------
\* Bounds of the model.

\* longest ledger handed to the core functions directly
MaxLen == 3
\* longest ledger of a terminal session
MaxTx == 3
\* the same, where amounts next to i64::MAX are among the inputs
MaxLenBig == 3
MaxTxBig == 2
\* longest ledger handed to the core where only 30 and i64::MAX are amounts
MaxLenLong == 4

---------------------------------------------------------------------------
\* i64 values (lib.rs 42: amount: i64; lib.rs 119: balance).

\* ten to the ninth: the three parts of a value are its digits in this base
Limb == 1000000000

\* the value hi * 10^18 + mid * 10^9 + lo in its one form, the two lower
\* parts brought into 0 .. 10^9 - 1
Normal(hi, mid, lo) ==
    LET m == mid + (lo \div Limb)
    IN  [hi |-> hi + (m \div Limb), mid |-> m % Limb, lo |-> lo % Limb]

\* a small integer as an i64 value
I64(n) == Normal(0, 0, n)

Zero == I64(0)

\* the integer sum and difference, which may lie outside i64
Plus(a, b) == Normal(a.hi + b.hi, a.mid + b.mid, a.lo + b.lo)
Minus(a, b) == Normal(a.hi - b.hi, a.mid - b.mid, a.lo - b.lo)

Less(a, b) ==
    \/ a.hi < b.hi
    \/ a.hi = b.hi /\ a.mid < b.mid
    \/ a.hi = b.hi /\ a.mid = b.mid /\ a.lo < b.lo
LessEq(a, b) == a = b \/ Less(a, b)

\* i64::MAX = 9 223372036 854775807 and i64::MIN = -i64::MAX - 1
I64_MAX == [hi |-> 9, mid |-> 223372036, lo |-> 854775807]
I64_MIN == Minus(Minus(Zero, I64_MAX), I64(1))

\* 2^64 = 18 446744073 709551616
TwoPow64 == [hi |-> 18, mid |-> 446744073, lo |-> 709551616]

\* v lies in i64::MIN ..= i64::MAX
FitsI64(v) == LessEq(I64_MIN, v) /\ LessEq(v, I64_MAX)

\* two's complement wrap-around of a sum or difference of two i64 values:
\* 2^64 is taken off or put on
WrapI64(v) ==
    IF Less(I64_MAX, v) THEN Minus(v, TwoPow64)
    ELSE IF Less(v, I64_MIN) THEN Plus(v, TwoPow64)
    ELSE v

---------------------------------------------------------------------------
\* Data model (lib.rs 16-68).

TransactionType == {"Deposit", "Withdrawal"}

Transaction(transaction_type, wallet_address, amount) ==
    [transaction_type |-> transaction_type,
     wallet_address   |-> wallet_address,
     amount           |-> amount]

Ok(balance) == [tag |-> "Ok", value |-> balance]
InvalidAmount(amount) == [tag |-> "InvalidAmount", amount |-> amount]
InsufficientFunds(requested, available) ==
    [tag |-> "InsufficientFunds", requested |-> requested, available |-> available]

\* the call did not return: `attempt to add with overflow` (overflow-checks on)
Panic == [tag |-> "Panic"]

\* no call made
NoResult == [tag |-> "None"]

\* The shape of the state.
I64Values == [hi : Int, mid : 0..(Limb - 1), lo : 0..(Limb - 1)]

TypeOK ==
    /\ transactions \in Seq([transaction_type : TransactionType,
                             wallet_address   : Seq(STRING),
                             amount           : I64Values])
    /\ pc \in { "menu", "exited", "call", "panicked" }
    /\ op \in [name : STRING, wallet_address : Seq(STRING),
               amount_line : Seq(STRING), amount : I64Values]
    /\ result.tag \in { "None", "Ok", "InvalidAmount", "InsufficientFunds", "Panic" }
    /\ history \in Seq([tx : [transaction_type : TransactionType,
                              wallet_address   : Seq(STRING),
                              amount           : I64Values],
                        balance : I64Values])
    /\ \A i \in DOMAIN events :
          /\ events[i].level \in { "INFO", "ERROR" }
          /\ events[i].kind \in STRING
    /\ message \in STRING
    /\ overflow_checks \in BOOLEAN

---------------------------------------------------------------------------
\* Inputs.

\* wallet addresses, as text
Wallets == { <<"A">>, <<"B">> }

\* amounts of the records handed to the core directly (the core accepts any i64)
Amounts == { I64(-100), I64(0), I64(30), I64(50), I64(100) }

\* amounts at the ends of the i64 range, with small ones to add to them
BigAmounts == { I64_MIN, I64(-100), I64(0), I64(30), I64_MAX }

Records(amounts) ==
    { Transaction(t, w, a) : t \in TransactionType, w \in Wallets, a \in amounts }

RECURSIVE SeqsUpTo(_, _)
SeqsUpTo(S, n) ==
    IF n = 0 THEN { <<>> }
    ELSE LET shorter == SeqsUpTo(S, n - 1)
         IN  shorter \cup { Append(s, x) : s \in { t \in shorter : Len(t) = n - 1 }, x \in S }

Ledgers == SeqsUpTo(Records(Amounts), MaxLen)

BigLedgers == SeqsUpTo(Records(BigAmounts), MaxLenBig)

\* fewer amounts, i64::MAX among them, in longer ledgers
EdgeAmounts == { I64(30), I64_MAX }

LongLedgers == SeqsUpTo(Records(EdgeAmounts), MaxLenLong)

---------------------------------------------------------------------------
\* Text: what is read from standard input (terminal/mod.rs 104-108,
\* 142-172) and what Display writes (lib.rs 25-54).

\* The characters with the Unicode property White_Space, which str::trim
\* removes: U+0009 to U+000D, U+0020, U+0085, U+00A0, U+1680, U+2000 to
\* U+200A, U+2028, U+2029, U+202F, U+205F and U+3000.  A character that a
\* string of this language cannot hold is written by its code point.
Whitespace ==
    { "\t", "\n", "", "\f", "\r", " ", "", " ", " ",
      "U+2000", "U+2001", "U+2002", "U+2003", "U+2004", "U+2005", "U+2006",
      "U+2007", "U+2008", "U+2009", "U+200A",
      "U+2028", "U+2029", "U+202F", "U+205F", "U+3000" }
Digits == { "0", "1", "2", "3", "4", "5", "6", "7", "8", "9" }

DigitValue(c) ==
    CASE c = "0" -> 0 [] c = "1" -> 1 [] c = "2" -> 2 [] c = "3" -> 3 [] c = "4" -> 4
      [] c = "5" -> 5 [] c = "6" -> 6 [] c = "7" -> 7 [] c = "8" -> 8 [] c = "9" -> 9

DigitChar(d) ==
    CASE d = 0 -> "0" [] d = 1 -> "1" [] d = 2 -> "2" [] d = 3 -> "3" [] d = 4 -> "4"
      [] d = 5 -> "5" [] d = 6 -> "6" [] d = 7 -> "7" [] d = 8 -> "8" [] d = 9 -> "9"

\* str::trim: drop the whitespace at both ends
RECURSIVE TrimStart(_)
TrimStart(s) ==
    IF s # <<>> /\ Head(s) \in Whitespace THEN TrimStart(Tail(s)) ELSE s

RECURSIVE TrimEnd(_)
TrimEnd(s) ==
    IF s # <<>> /\ s[Len(s)] \in Whitespace THEN TrimEnd(SubSeq(s, 1, Len(s) - 1)) ELSE s

Trim(s) == TrimEnd(TrimStart(s))

\* the value of a run of decimal digits, most significant first
RECURSIVE DigitsValue(_, _)
DigitsValue(s, acc) ==
    IF s = <<>> THEN acc ELSE DigitsValue(Tail(s), acc * 10 + DigitValue(Head(s)))

\* the decimal digits of i64::MAX and of the number after it
I64MaxDigits ==
    << "9", "2", "2", "3", "3", "7", "2", "0", "3", "6",
       "8", "5", "4", "7", "7", "5", "8", "0", "7" >>
I64MaxPlusOneDigits ==
    << "9", "2", "2", "3", "3", "7", "2", "0", "3", "6",
       "8", "5", "4", "7", "7", "5", "8", "0", "8" >>

\* a run of digits without the zeros in front
RECURSIVE StripZeros(_)
StripZeros(s) == IF s # <<>> /\ Head(s) = "0" THEN StripZeros(Tail(s)) ELSE s

\* the number written by a run of at most 27 digits: its last nine digits,
\* the nine before them and the rest
Magnitude(digits) ==
    LET n == Len(digits)
    IN  [hi  |-> IF n > 18 THEN DigitsValue(SubSeq(digits, 1, n - 18), 0) ELSE 0,
         mid |-> IF n > 18 THEN DigitsValue(SubSeq(digits, n - 17, n - 9), 0)
                 ELSE IF n > 9 THEN DigitsValue(SubSeq(digits, 1, n - 9), 0)
                 ELSE 0,
         lo  |-> IF n > 9 THEN DigitsValue(SubSeq(digits, n - 8, n), 0)
                 ELSE DigitsValue(digits, 0)]

\* str::parse::<i64>: an optional sign, then one or more digits and nothing
\* else; a number outside i64 is an error too.
ParseI64(s) ==
    LET signed   == s # <<>> /\ Head(s) \in { "+", "-" }
        negative == signed /\ Head(s) = "-"
        body     == IF signed THEN Tail(s) ELSE s
        failed   == [ok |-> FALSE, value |-> Zero]
    IN  IF body = <<>> \/ \E i \in DOMAIN body : body[i] \notin Digits
        THEN failed
        ELSE IF Len(StripZeros(body)) > 19
        THEN failed
        ELSE LET magnitude == Magnitude(StripZeros(body))
                 value     == IF negative THEN Minus(Zero, magnitude) ELSE magnitude
             IN  IF FitsI64(value) THEN [ok |-> TRUE, value |-> value] ELSE failed

\* the decimal digits of a natural number below 10^9
RECURSIVE NatDigits(_)
NatDigits(n) ==
    IF n < 10 THEN << DigitChar(n) >>
    ELSE NatDigits(n \div 10) \o << DigitChar(n % 10) >>

\* the nine decimal digits of a natural number below 10^9, zeros in front
Pad9(n) ==
    LET digits == NatDigits(n)
    IN  [i \in 1..(9 - Len(digits)) |-> "0"] \o digits

\* Display of an i64 ({} in a format string): a minus sign for a negative
\* value, then the decimal digits with no zeros in front
DisplayI64(v) ==
    LET negative  == Less(v, Zero)
        magnitude == IF negative THEN Minus(Zero, v) ELSE v
        digits    == IF magnitude.hi > 0
                     THEN NatDigits(magnitude.hi) \o Pad9(magnitude.mid) \o Pad9(magnitude.lo)
                     ELSE IF magnitude.mid > 0
                     THEN NatDigits(magnitude.mid) \o Pad9(magnitude.lo)
                     ELSE NatDigits(magnitude.lo)
    IN  IF negative THEN << "-" >> \o digits ELSE digits

\* impl Display for TransactionType (lib.rs 25-32)
DisplayTransactionType(transaction_type) ==
    IF transaction_type = "Deposit"
    THEN << "D", "e", "p", "o", "s", "i", "t" >>
    ELSE << "W", "i", "t", "h", "d", "r", "a", "w", "a", "l" >>

\* Faulty variant: a withdrawal is written with "from", as the log messages
\* of lib.rs 142 and 150 are.
DisplayTransaction_FromForWithdrawal(tx) ==
    DisplayTransactionType(tx.transaction_type)
        \o << " ", "o", "f", " " >> \o DisplayI64(tx.amount)
        \o (IF tx.transaction_type = "Deposit" THEN << " ", "t", "o", " " >>
            ELSE << " ", "f", "r", "o", "m", " " >>)
        \o tx.wallet_address

\* impl Display for Transaction (lib.rs 46-54): "{} of {} to {}"
DisplayTransaction(tx) ==
    DisplayTransactionType(tx.transaction_type)
        \o << " ", "o", "f", " " >> \o DisplayI64(tx.amount)
        \o << " ", "t", "o", " " >> \o tx.wallet_address

---------------------------------------------------------------------------
\* Arithmetic on the running balance (lib.rs 136, 151, 172, 173).  A sum or
\* difference that does not fit in i64 panics where the build has
\* overflow-checks on (the dev and test profiles) and wraps around where it
\* has them off (the release profile).

Checked(v) ==
    IF FitsI64(v) THEN [panic |-> FALSE, value |-> v]
    ELSE IF overflow_checks THEN [panic |-> TRUE, value |-> v]
    ELSE [panic |-> FALSE, value |-> WrapI64(v)]

\* balance += amount
AddAssign(balance, amount) == Checked(Plus(balance, amount))

\* balance -= amount
SubAssign(balance, amount) == Checked(Minus(balance, amount))

---------------------------------------------------------------------------
\* calculate_wallet_balance (lib.rs 113-158).

\* Faulty variant: the filter on the wallet address is left out.
FilterWallet_All(txs, wallet_address) == txs

\* transactions.iter().filter(|tx| tx.wallet_address == wallet_address)
FilterWallet(txs, wallet_address) ==
    SelectSeq(txs, LAMBDA tx : tx.wallet_address = wallet_address)

\* if tx.amount < 0 (lib.rs 124)
AmountInvalid(tx) == Less(tx.amount, Zero)

\* Faulty variant: the funds check is missing.
FundsShort_Never(balance, tx) == FALSE

\* if balance < tx.amount (lib.rs 140)
FundsShort(balance, tx) == Less(balance, tx.amount)

\* Err(WalletError::InsufficientFunds { requested, available }) (lib.rs 145-148)
FundsError(balance, tx) == InsufficientFunds(tx.amount, balance)

\* The log events (lib.rs 125-128, 135, 141-144, 150, 156), each with the
\* values its message is formatted from.
InvalidAmountEvent(tx) ==
    [level |-> "ERROR", kind |-> "Invalid transaction amount",
     amount |-> tx.amount, tx |-> tx]
DepositEvent(tx) ==
    [level |-> "INFO", kind |-> "Deposit",
     amount |-> tx.amount, wallet_address |-> tx.wallet_address]
InsufficientFundsEvent(tx, balance) ==
    [level |-> "ERROR", kind |-> "Insufficient funds for withdrawal",
     amount |-> tx.amount, wallet_address |-> tx.wallet_address, balance |-> balance]
WithdrawalEvent(tx) ==
    [level |-> "INFO", kind |-> "Withdrawal",
     amount |-> tx.amount, wallet_address |-> tx.wallet_address]
FinalBalanceEvent(wallet_address, balance) ==
    [level |-> "INFO", kind |-> "Final balance",
     wallet_address |-> wallet_address, balance |-> balance]

\* an event, then what the rest of the call does
Emit(event, rest) == [result |-> rest.result, events |-> << event >> \o rest.events]

\* Faulty variant: the final event is logged when the call fails, too.
Return_AlwaysFinal(err, event, wallet_address, balance) ==
    [result |-> err,
     events |-> << event, FinalBalanceEvent(wallet_address, balance) >>]

\* return Err(..), after the error event (lib.rs 125-129, 141-148); the
\* statements after the loop are not reached
Return(err, event, wallet_address, balance) ==
    [result |-> err, events |-> << event >>]

\* The body of the for loop, from record i of the wallet's records on, with
\* the running balance; then the statements after the loop.  The value is
\* what the call returns and the events it logs.
RECURSIVE BalanceLoop(_, _, _, _)
BalanceLoop(txs, wallet_address, i, balance) ==
    IF i > Len(txs)
    THEN [result |-> Ok(balance),
          events |-> << FinalBalanceEvent(wallet_address, balance) >>]
    ELSE LET tx == txs[i] IN
         IF AmountInvalid(tx)
         THEN Return(InvalidAmount(tx.amount), InvalidAmountEvent(tx),
                     wallet_address, balance)
         ELSE IF tx.transaction_type = "Deposit"
         THEN LET sum == AddAssign(balance, tx.amount)
              IN  IF sum.panic
                  THEN [result |-> Panic, events |-> << DepositEvent(tx) >>]
                  ELSE Emit(DepositEvent(tx),
                            BalanceLoop(txs, wallet_address, i + 1, sum.value))
         ELSE IF FundsShort(balance, tx)
         THEN Return(FundsError(balance, tx), InsufficientFundsEvent(tx, balance),
                     wallet_address, balance)
         ELSE LET diff == SubAssign(balance, tx.amount)
              IN  IF diff.panic
                  THEN [result |-> Panic, events |-> << WithdrawalEvent(tx) >>]
                  ELSE Emit(WithdrawalEvent(tx),
                            BalanceLoop(txs, wallet_address, i + 1, diff.value))

\* Faulty variant: the deposits are replayed before the withdrawals, so a
\* deposit appended later covers an earlier withdrawal.
BalanceCall_DepositsFirst(txs, wallet_address) ==
    LET own == FilterWallet(txs, wallet_address)
    IN  BalanceLoop(SelectSeq(own, LAMBDA tx : tx.transaction_type = "Deposit")
                        \o SelectSeq(own, LAMBDA tx : tx.transaction_type # "Deposit"),
                    wallet_address, 1, Zero)

\* the call: what it returns and what it logs
BalanceCall(txs, wallet_address) ==
    BalanceLoop(FilterWallet(txs, wallet_address), wallet_address, 1, Zero)

\* the value returned
calculate_wallet_balance(txs, wallet_address) == BalanceCall(txs, wallet_address).result

\* the events logged
calculate_wallet_balance_events(txs, wallet_address) == BalanceCall(txs, wallet_address).events

---------------------------------------------------------------------------
\* print_transaction_history (lib.rs 165-177): the printed lines, each a
\* transaction with the running balance after it.

\* println!("{} | Running balance: {}", tx, balance) (lib.rs 175): a line, as
\* the transaction and the balance it is formatted from
HistoryLine(tx, balance) == [tx |-> tx, balance |-> balance]

\* the text of a line
HistoryLineText(line) ==
    DisplayTransaction(line.tx)
        \o << " ", "|", " ", "R", "u", "n", "n", "i", "n", "g", " ",
              "b", "a", "l", "a", "n", "c", "e", ":", " " >>
        \o DisplayI64(line.balance)

\* a printed line, then what the rest of the call does
PrintLine(line, rest) == [lines |-> << line >> \o rest.lines, panicked |-> rest.panicked]

\* the body of the for loop, from record i of the wallet's records on
RECURSIVE HistoryLoop(_, _, _)
HistoryLoop(txs, i, balance) ==
    IF i > Len(txs) THEN [lines |-> <<>>, panicked |-> FALSE]
    ELSE LET tx   == txs[i]
             next == IF tx.transaction_type = "Deposit"
                     THEN AddAssign(balance, tx.amount)
                     ELSE SubAssign(balance, tx.amount)
         IN  IF next.panic
             THEN [lines |-> <<>>, panicked |-> TRUE]
             ELSE PrintLine(HistoryLine(tx, next.value),
                            HistoryLoop(txs, i + 1, next.value))

\* the call: the lines printed after the header, and whether the call
\* panicked instead of returning
print_transaction_history(txs, wallet_address) ==
    HistoryLoop(FilterWallet(txs, wallet_address), 1, Zero)

---------------------------------------------------------------------------
\* The terminal's readers (terminal/mod.rs 142-172).

\* WalletTerminal::get_wallet_address: the line, trimmed
get_wallet_address(line) == Trim(line)

\* Faulty variant: a line that is not a number is read as 1.
get_amount_DefaultsToOne(line) ==
    LET parsed == ParseI64(Trim(line))
    IN  IF parsed.ok THEN parsed.value ELSE I64(1)

\* WalletTerminal::get_amount: the number on the line, and Ok(0) for a line
\* that does not parse
get_amount(line) ==
    LET parsed == ParseI64(Trim(line))
    IN  IF parsed.ok THEN parsed.value ELSE Zero

\* the lines typed at the menu prompt
ChoiceLines ==
    { <<"1", "\n">>, <<"2", "\n">>, <<"3", "\n">>, <<"4", "\n">>, <<"5", "\n">>,
      <<"9", "\n">>, <<"\n">> }

\* the lines typed at the wallet address prompt, one with a form feed before
\* the address and a blank and a carriage return after it
WalletLines == { <<"A", "\n">>, <<"\f", "A", " ", "\r", "\n">>, <<"B", "\n">> }

\* the lines typed at the amount prompt, one with a no-break space before
\* the number
AmountLines ==
    { <<"3", "0", "\n">>, <<" ", "1", "0", "0", "\r", "\n">>,
      <<"0", "\n">>, <<"-", "5", "0", "\n">>, <<"a", "b", "c", "\n">> }

\* the same, with a number of ten digits, i64::MAX and the number after it
\* among them
BigAmountLines ==
    { <<"3", "0", "\n">>,
      <<"1", "0", "0", "0", "0", "0", "0", "0", "0", "0", "\n">>,
      I64MaxDigits \o <<"\n">>, I64MaxPlusOneDigits \o <<"\n">> }

---------------------------------------------------------------------------
\* The terminal's handlers (terminal/mod.rs 178-262), each as the ledger it
\* leaves, what its calculate_wallet_balance call returned and logged, what
\* it prints, and whether it panicked instead of returning.

Done(txs, call, text) ==
    [transactions |-> txs,
     result       |-> call.result,
     events       |-> call.events,
     history      |-> <<>>,
     message      |-> text,
     panicked     |-> call.result = Panic]

\* no call of calculate_wallet_balance made
NoCall == [result |-> NoResult, events |-> <<>>]

\* WalletTerminal::check_balance
check_balance(txs, wallet_address) ==
    LET call == BalanceCall(txs, wallet_address)
    IN  Done(txs, call,
             IF call.result.tag = "Ok" THEN "Balance for wallet"
             ELSE "Error checking balance")

\* Faulty variant: the amount check lets zero through (< for <=).
deposit_AllowsZero(txs, wallet_address, amount) ==
    IF Less(amount, Zero)
    THEN Done(txs, NoCall, "Amount must be positive")
    ELSE Done(Append(txs, Transaction("Deposit", wallet_address, amount)),
              NoCall, "Successfully deposited")

\* Faulty variant: the record is inserted at the front of the ledger.
deposit_InsertsFirst(txs, wallet_address, amount) ==
    IF LessEq(amount, Zero)
    THEN Done(txs, NoCall, "Amount must be positive")
    ELSE Done(<< Transaction("Deposit", wallet_address, amount) >> \o txs,
              NoCall, "Successfully deposited")

\* WalletTerminal::deposit
deposit(txs, wallet_address, amount) ==
    IF LessEq(amount, Zero)
    THEN Done(txs, NoCall, "Amount must be positive")
    ELSE Done(Append(txs, Transaction("Deposit", wallet_address, amount)),
              NoCall, "Successfully deposited")

\* WalletTerminal::withdraw
withdraw(txs, wallet_address, amount) ==
    IF LessEq(amount, Zero)
    THEN Done(txs, NoCall, "Amount must be positive")
    ELSE LET call == BalanceCall(txs, wallet_address)
         IN  IF call.result.tag = "Ok" /\ LessEq(amount, call.result.value)
             THEN Done(Append(txs, Transaction("Withdrawal", wallet_address, amount)),
                       call, "Successfully withdrew")
             ELSE IF call.result.tag = "Ok"
             THEN Done(txs, call, "Insufficient funds")
             ELSE Done(txs, call, "Error")

\* WalletTerminal::view_history
view_history(txs, wallet_address) ==
    LET printed == print_transaction_history(txs, wallet_address)
    IN  [transactions |-> txs,
         result       |-> NoResult,
         events       |-> <<>>,
         history      |-> printed.lines,
         message      |-> "Transaction history for wallet",
         panicked     |-> printed.panicked]

---------------------------------------------------------------------------
\* The terminal session (terminal/mod.rs 22-30, 66-136): one action per
\* menu choice, each the whole of show_menu for that choice.

NoOp == [name |-> "none", wallet_address |-> <<>>, amount_line |-> <<>>, amount |-> Zero]

Operation(name, wallet_address, amount_line, amount) ==
    [name |-> name, wallet_address |-> wallet_address,
     amount_line |-> amount_line, amount |-> amount]

\* the state a handler leaves: a panic ends the process, otherwise run shows
\* the menu again
Handled(out) ==
    /\ transactions' = out.transactions
    /\ result' = out.result
    /\ events' = out.events
    /\ history' = out.history
    /\ message' = IF out.panicked THEN "attempt to add with overflow" ELSE out.message
    /\ pc' = IF out.panicked THEN "panicked" ELSE "menu"
    /\ UNCHANGED overflow_checks

\* WalletTerminal::new
InitTerminal ==
    /\ transactions = <<>>
    /\ pc = "menu"
    /\ op = NoOp
    /\ result = NoResult
    /\ history = <<>>
    /\ events = <<>>
    /\ message = "Welcome"

\* The session of the typed amounts up to 100: no sum of MaxTx of them
\* leaves i64, so the two profiles behave alike, and the build is taken to
\* be the one `cargo run` makes, the dev profile.
Init ==
    /\ InitTerminal
    /\ overflow_checks = TRUE

CheckBalance ==
    \E choice \in ChoiceLines, wl \in WalletLines :
        /\ pc = "menu"
        /\ Trim(choice) = <<"1">>
        /\ LET w == get_wallet_address(wl)
           IN  /\ op' = Operation("check_balance", w, <<>>, Zero)
               /\ Handled(check_balance(transactions, w))

DepositFrom(lines, longest) ==
    \E choice \in ChoiceLines, wl \in WalletLines, al \in lines :
        /\ pc = "menu"
        /\ Trim(choice) = <<"2">>
        /\ LET w   == get_wallet_address(wl)
               a   == get_amount(al)
               out == deposit(transactions, w, a)
           IN  /\ Len(out.transactions) <= longest
               /\ op' = Operation("deposit", w, al, a)
               /\ Handled(out)

WithdrawFrom(lines, longest) ==
    \E choice \in ChoiceLines, wl \in WalletLines, al \in lines :
        /\ pc = "menu"
        /\ Trim(choice) = <<"3">>
        /\ LET w   == get_wallet_address(wl)
               a   == get_amount(al)
               out == withdraw(transactions, w, a)
           IN  /\ Len(out.transactions) <= longest
               /\ op' = Operation("withdraw", w, al, a)
               /\ Handled(out)

Deposit == DepositFrom(AmountLines, MaxTx)

Withdraw == WithdrawFrom(AmountLines, MaxTx)

ViewHistory ==
    \E choice \in ChoiceLines, wl \in WalletLines :
        /\ pc = "menu"
        /\ Trim(choice) = <<"4">>
        /\ LET w == get_wallet_address(wl)
           IN  /\ op' = Operation("view_history", w, <<>>, Zero)
               /\ Handled(view_history(transactions, w))

Exit ==
    \E choice \in ChoiceLines :
        /\ pc = "menu"
        /\ Trim(choice) = <<"5">>
        /\ pc' = "exited"
        /\ op' = Operation("exit", <<>>, <<>>, Zero)
        /\ message' = "Thank you"
        /\ result' = NoResult
        /\ history' = <<>>
        /\ events' = <<>>
        /\ UNCHANGED <<transactions, overflow_checks>>

InvalidChoice ==
    \E choice \in ChoiceLines :
        /\ pc = "menu"
        /\ Trim(choice) \notin { <<"1">>, <<"2">>, <<"3">>, <<"4">>, <<"5">> }
        /\ op' = Operation("invalid_choice", <<>>, <<>>, Zero)
        /\ message' = "Invalid choice"
        /\ result' = NoResult
        /\ history' = <<>>
        /\ events' = <<>>
        /\ UNCHANGED <<transactions, pc, overflow_checks>>

\* a read from standard input fails (the bytes are not UTF-8): show_menu
\* returns the error before any push, run prints it and shows the menu again
MenuError ==
    /\ pc = "menu"
    /\ op' = Operation("io_error", <<>>, <<>>, Zero)
    /\ message' = "Error"
    /\ result' = NoResult
    /\ history' = <<>>
    /\ events' = <<>>
    /\ UNCHANGED <<transactions, pc, overflow_checks>>

Next ==
    \/ CheckBalance
    \/ Deposit
    \/ Withdraw
    \/ ViewHistory
    \/ Exit
    \/ InvalidChoice
    \/ MenuError

Spec == Init /\ [][Next]_vars

\* The session where amounts at the end of the i64 range are typed.
DepositBig == DepositFrom(BigAmountLines, MaxTxBig)

WithdrawBig == WithdrawFrom(BigAmountLines, MaxTxBig)

NextBig ==
    \/ CheckBalance
    \/ DepositBig
    \/ WithdrawBig
    \/ ViewHistory
    \/ Exit
    \/ InvalidChoice
    \/ MenuError

\* a build of either profile
InitBig ==
    /\ InitTerminal
    /\ overflow_checks \in BOOLEAN

SpecBig == InitBig /\ [][NextBig]_vars

---------------------------------------------------------------------------
\* Direct calls of the core on an arbitrary ledger, as the tests make them.
\* A call that panics ends the calling process.

InitCoreOn(ledgers) ==
    /\ transactions \in ledgers
    /\ pc = "call"
    /\ op = NoOp
    /\ result = NoResult
    /\ history = <<>>
    /\ events = <<>>
    /\ message = "none"

\* Ledgers of amounts up to 100: no sum of MaxLen of them leaves i64, so the
\* two profiles behave alike, and the build is taken to be the one
\* `cargo test` makes, which has overflow-checks on.
InitCore ==
    /\ InitCoreOn(Ledgers)
    /\ overflow_checks = TRUE

CallBalance ==
    \E w \in Wallets :
        /\ pc = "call"
        /\ op' = Operation("calculate_wallet_balance", w, <<>>, Zero)
        /\ LET call == BalanceCall(transactions, w)
           IN  /\ result' = call.result
               /\ events' = call.events
               /\ pc' = IF call.result = Panic THEN "panicked" ELSE "call"
        /\ history' = <<>>
        /\ UNCHANGED <<transactions, message, overflow_checks>>

CallHistory ==
    \E w \in Wallets :
        /\ pc = "call"
        /\ op' = Operation("print_transaction_history", w, <<>>, Zero)
        /\ LET printed == print_transaction_history(transactions, w)
           IN  /\ history' = printed.lines
               /\ pc' = IF printed.panicked THEN "panicked" ELSE "call"
        /\ result' = NoResult
        /\ events' = <<>>
        /\ UNCHANGED <<transactions, message, overflow_checks>>

NextCore == CallBalance \/ CallHistory

SpecCore == InitCore /\ [][NextCore]_vars

\* The same calls on ledgers with amounts at the ends of the i64 range.
InitCoreBig ==
    /\ InitCoreOn(BigLedgers)
    /\ overflow_checks \in BOOLEAN

SpecCoreBig == InitCoreBig /\ [][NextCore]_vars

\* The same calls on the longer ledgers of 30 and i64::MAX.
InitCoreLong ==
    /\ InitCoreOn(LongLedgers)
    /\ overflow_checks \in BOOLEAN

SpecCoreLong == InitCoreLong /\ [][NextCore]_vars

---------------------------------------------------------------------------
\* What the claims are stated with: the queried wallet's records picked by
\* position, and plain sums, written without the folds above.

\* the positions of the ledger's records of one wallet
Matching(ledger, w) == { i \in DOMAIN ledger : ledger[i].wallet_address = w }

\* the wallet's records in insertion order: the k-th is the one with k-1
\* records of the wallet before it
Subsequence(ledger, w) ==
    LET M == Matching(ledger, w)
    IN  [k \in 1..Cardinality(M) |->
            ledger[CHOOSE i \in M : Cardinality({ j \in M : j < i }) = k - 1]]

Signed(tx) == IF tx.transaction_type = "Deposit" THEN tx.amount ELSE Minus(Zero, tx.amount)

\* deposits minus withdrawals over the first k records of s, as an integer
RECURSIVE RunningTotal(_, _)
RunningTotal(s, k) == IF k = 0 THEN Zero ELSE Plus(RunningTotal(s, k - 1), Signed(s[k]))

\* the sum of the Deposit amounts among the first k records of s, as an integer
RECURSIVE DepositsTotal(_, _)
DepositsTotal(s, k) ==
    IF k = 0 THEN Zero
    ELSE IF s[k].transaction_type = "Deposit"
    THEN Plus(DepositsTotal(s, k - 1), s[k].amount)
    ELSE DepositsTotal(s, k - 1)

\* record i of s breaks a rule of the replay
Violates(s, i) ==
    \/ Less(s[i].amount, Zero)
    \/ s[i].transaction_type = "Withdrawal" /\ Less(RunningTotal(s, i - 1), s[i].amount)

NoneViolatesBefore(s, i) == \A j \in 1..(i - 1) : ~Violates(s, j)

\* the position of the first record of s that breaks a rule, 0 when none does
FirstViolation(s) ==
    IF \E i \in DOMAIN s : Violates(s, i)
    THEN CHOOSE i \in DOMAIN s : Violates(s, i) /\ NoneViolatesBefore(s, i)
    ELSE 0

IsPrefix(s, t) == Len(s) <= Len(t) /\ \A i \in DOMAIN s : s[i] = t[i]

\* the last step was a direct call of calculate_wallet_balance / print_transaction_history
BalanceCalled == op.name = "calculate_wallet_balance"
HistoryCalled == op.name = "print_transaction_history"

\* the queried wallet's records
Queried == Subsequence(transactions, op.wallet_address)

---------------------------------------------------------------------------
\* C1: when the replay of the queried wallet's records reaches a Withdrawal
\* whose amount exceeds the running balance of the earlier records, and no
\* earlier record broke a rule, calculate_wallet_balance fails with
\* InsufficientFunds carrying that amount as requested and the exact
\* pre-withdrawal running total as available.
C1_InsufficientFundsPayload ==
    BalanceCalled =>
        \A i \in DOMAIN Queried :
            ( /\ Queried[i].transaction_type = "Withdrawal"
              /\ Less(RunningTotal(Queried, i - 1), Queried[i].amount)
              /\ NoneViolatesBefore(Queried, i) )
            => result = InsufficientFunds(Queried[i].amount, RunningTotal(Queried, i - 1))

\* deposit 50 then withdraw 100, with another wallet's record in between
C1_Witness ==
    /\ BalanceCalled
    /\ Len(transactions) = 3
    /\ transactions[2].wallet_address # op.wallet_address
    /\ Queried = << Transaction("Deposit", op.wallet_address, I64(50)),
                    Transaction("Withdrawal", op.wallet_address, I64(100)) >>
    /\ result = InsufficientFunds(I64(100), I64(50))

\* C2: the outcome for a wallet equals the outcome on the ledger with all of
\* another wallet's records removed, wherever those records stand.
RemoveWallet(ledger, a) == SelectSeq(ledger, LAMBDA tx : tx.wallet_address # a)

C2_WalletIsolation ==
    BalanceCalled =>
        \A a \in Wallets \ { op.wallet_address } :
            result = calculate_wallet_balance(RemoveWallet(transactions, a), op.wallet_address)

\* the other wallet's records, one of them invalid, stand between the queried wallet's
C2_Witness ==
    /\ BalanceCalled
    /\ Len(transactions) = 3
    /\ transactions[1].wallet_address = op.wallet_address
    /\ transactions[2].wallet_address # op.wallet_address
    /\ Less(transactions[2].amount, Zero)
    /\ transactions[3].wallet_address = op.wallet_address
    /\ result = Ok(I64(70))

\* C3: [Deposit(100), Withdrawal(30)] yields 70, the same records in the
\* order [Withdrawal(30), Deposit(100)] fail with
\* InsufficientFunds{requested: 30, available: 0}.
C3_OrderSensitive ==
    BalanceCalled =>
        LET w == op.wallet_address
        IN  /\ transactions = << Transaction("Deposit", w, I64(100)),
                                 Transaction("Withdrawal", w, I64(30)) >>
               => result = Ok(I64(70))
            /\ transactions = << Transaction("Withdrawal", w, I64(30)),
                                 Transaction("Deposit", w, I64(100)) >>
               => result = InsufficientFunds(I64(30), I64(0))

C3_Witness ==
    /\ BalanceCalled
    /\ transactions = << Transaction("Withdrawal", op.wallet_address, I64(30)),
                         Transaction("Deposit", op.wallet_address, I64(100)) >>
    /\ result = InsufficientFunds(I64(30), I64(0))

\* C4: a negative amount in the queried wallet's records, on a Deposit or a
\* Withdrawal, preceded only by records that break no rule, makes
\* calculate_wallet_balance fail with InvalidAmount carrying that amount.
C4_NegativeAmountRejected ==
    BalanceCalled =>
        \A i \in DOMAIN Queried :
            (Less(Queried[i].amount, Zero) /\ NoneViolatesBefore(Queried, i))
            => result = InvalidAmount(Queried[i].amount)

\* a negative Withdrawal after a valid deposit and a valid withdrawal
C4_Witness ==
    /\ BalanceCalled
    /\ Len(Queried) = 3
    /\ Queried[1].transaction_type = "Deposit" /\ Less(Zero, Queried[1].amount)
    /\ Queried[2].transaction_type = "Withdrawal" /\ Less(Zero, Queried[2].amount)
    /\ Queried[3].transaction_type = "Withdrawal" /\ Queried[3].amount = I64(-100)
    /\ result = InvalidAmount(I64(-100))

\* C5: the error returned is the one of the first record of the queried
\* wallet that breaks a rule (InvalidAmount for a negative amount, otherwise
\* InsufficientFunds), the records after it do not change it, and no
\* success value is returned.
C5_ShortCircuit ==
    BalanceCalled =>
        LET f == FirstViolation(Queried)
        IN  f # 0 =>
              /\ result.tag # "Ok"
              /\ result = IF Less(Queried[f].amount, Zero)
                          THEN InvalidAmount(Queried[f].amount)
                          ELSE InsufficientFunds(Queried[f].amount, RunningTotal(Queried, f - 1))
              /\ result = calculate_wallet_balance(SubSeq(Queried, 1, f), op.wallet_address)

\* an over-withdrawal comes first, a negative amount after it
C5_Witness ==
    /\ BalanceCalled
    /\ Len(Queried) = 3
    /\ FirstViolation(Queried) = 2
    /\ Less(Queried[3].amount, Zero)
    /\ result.tag = "InsufficientFunds"

\* C6: a wallet with no record in the ledger has balance 0, also when the
\* ledger is empty and when other wallets' records are invalid.
C6_NoRecordsIsZero ==
    (BalanceCalled /\ Matching(transactions, op.wallet_address) = {}) => result = Ok(Zero)

C6_Witness ==
    /\ BalanceCalled
    /\ Matching(transactions, op.wallet_address) = {}
    /\ \E i \in DOMAIN transactions : Less(transactions[i].amount, Zero)
    /\ \E i \in DOMAIN transactions :
          /\ transactions[i].transaction_type = "Withdrawal"
          /\ Less(Zero, transactions[i].amount)
    /\ result = Ok(Zero)

\* C7: when the queried wallet's records are all Deposits of non-negative
\* amounts, the result is the sum of those amounts.
C7_DepositsSum ==
    (BalanceCalled /\ \A i \in DOMAIN Queried :
                          /\ Queried[i].transaction_type = "Deposit"
                          /\ LessEq(Zero, Queried[i].amount))
    => result = Ok(RunningTotal(Queried, Len(Queried)))

\* two deposits of the wallet and a record of another wallet
C7_Witness ==
    /\ BalanceCalled
    /\ Len(transactions) = 3
    /\ Len(Queried) = 2
    /\ Queried[1].transaction_type = "Deposit" /\ Queried[1].amount = I64(100)
    /\ Queried[2].transaction_type = "Deposit" /\ Queried[2].amount = I64(30)
    /\ result = Ok(I64(130))

\* C10: the history of a wallet is that wallet's records in insertion order,
\* none of another wallet, none omitted, none repeated, each with the running
\* balance after it (from 0, plus each Deposit, minus each Withdrawal); it is
\* empty for a wallet with no records.
C10_HistoryLines ==
    HistoryCalled =>
        /\ Len(history) = Cardinality(Matching(transactions, op.wallet_address))
        /\ \A k \in DOMAIN history :
              /\ history[k].tx = Queried[k]
              /\ history[k].balance = RunningTotal(Queried, k)

\* two lines of one wallet, a deposit and a withdrawal, around another wallet's record
C10_Witness ==
    /\ HistoryCalled
    /\ Len(history) = 2
    /\ Len(transactions) = 3
    /\ transactions[2].wallet_address # op.wallet_address
    /\ history[1].tx.transaction_type = "Deposit" /\ history[1].balance = I64(100)
    /\ history[2].tx.transaction_type = "Withdrawal" /\ history[2].balance = I64(70)

---------------------------------------------------------------------------
\* Claims about the terminal session.

\* C8: every transaction of the session ledger has amount > 0, and deposit
\* and withdraw append nothing when the entered amount is zero or negative.
C8_StoredAmountsPositive ==
    /\ [](\A i \in DOMAIN transactions : Less(Zero, transactions[i].amount))
    /\ [][ (op'.name \in { "deposit", "withdraw" } /\ LessEq(op'.amount, Zero))
           => transactions' = transactions ]_vars

\* a deposit of a rejected amount on a ledger that already holds records
C8_Witness ==
    /\ op.name = "deposit"
    /\ LessEq(op.amount, Zero)
    /\ message = "Amount must be positive"
    /\ Len(transactions) >= 2

\* C9: the ledger only grows at its end: every step leaves the old ledger a
\* prefix of the new one, check balance, view history, an invalid choice and
\* exit leave it as it is, and a step that changes it is a successful
\* deposit or withdraw appending exactly one record.
C9_AppendOnly ==
    [][ /\ IsPrefix(transactions, transactions')
        /\ op'.name \in { "check_balance", "view_history", "invalid_choice", "exit", "io_error" }
           => transactions' = transactions
        /\ transactions' # transactions
           => /\ Len(transactions') = Len(transactions) + 1
              /\ op'.name \in { "deposit", "withdraw" }
              /\ message' \in { "Successfully deposited", "Successfully withdrew" }
              /\ transactions'[Len(transactions')].wallet_address = op'.wallet_address
              /\ transactions'[Len(transactions')].amount = op'.amount
              /\ transactions'[Len(transactions')].transaction_type =
                    (IF op'.name = "deposit" THEN "Deposit" ELSE "Withdrawal")
      ]_vars

\* a withdrawal appended behind two deposits of different wallets
C9_Witness ==
    /\ op.name = "withdraw"
    /\ message = "Successfully withdrew"
    /\ Len(transactions) = 3
    /\ transactions[1].wallet_address # transactions[2].wallet_address
    /\ transactions[3].transaction_type = "Withdrawal"

---------------------------------------------------------------------------
\* Claims about the history, the zero amount and the amount prompt.

\* C11: print_transaction_history never fails and never validates: for every
\* ledger and wallet the call completes, and its lines show the raw
\* cumulative total of the wallet's records, one line per record, whatever
\* their sign and whatever the balance (a negative total after an
\* over-withdrawal, a negative amount applied as it stands).
C11_HistoryNeverFails ==
    HistoryCalled =>
        /\ pc # "panicked"
        /\ Len(history) = Len(Queried)
        /\ \A k \in DOMAIN history :
              /\ history[k].tx = Queried[k]
              /\ history[k].balance = RunningTotal(Queried, k)

\* the lines of a ledger calculate_wallet_balance rejects: an over-withdrawal
\* shown with a negative total
C11_UnvalidatedLines ==
    /\ HistoryCalled
    /\ pc = "call"
    /\ Len(history) = 2
    /\ history[1].tx.transaction_type = "Withdrawal"
    /\ Less(history[1].balance, Zero)
    /\ calculate_wallet_balance(transactions, op.wallet_address).tag = "InsufficientFunds"

\* the zero-amount records of one wallet taken out of a ledger
RemoveZero(ledger, w) ==
    SelectSeq(ledger, LAMBDA tx : ~(tx.wallet_address = w /\ tx.amount = Zero))

\* C12: a Deposit or Withdrawal of amount 0 is accepted by
\* calculate_wallet_balance: no error returned carries the amount 0 (a
\* Withdrawal of 0 passes at balance 0), a wallet whose records all have
\* amount 0 has balance 0, and the outcome is the one of the ledger with the
\* wallet's zero-amount records taken out.
C12_ZeroAmountAccepted ==
    BalanceCalled =>
        /\ result.tag = "InvalidAmount" => result.amount # Zero
        /\ result.tag = "InsufficientFunds" => result.requested # Zero
        /\ (\A i \in DOMAIN Queried : Queried[i].amount = Zero) => result = Ok(Zero)
        /\ result = calculate_wallet_balance(RemoveZero(transactions, op.wallet_address),
                                             op.wallet_address)

\* a Withdrawal of 0 at balance 0, then a Deposit of 30 and a Deposit of 0
C12_Witness ==
    /\ BalanceCalled
    /\ Queried = << Transaction("Withdrawal", op.wallet_address, Zero),
                    Transaction("Deposit", op.wallet_address, I64(30)),
                    Transaction("Deposit", op.wallet_address, Zero) >>
    /\ result = Ok(I64(30))

\* the trimmed line holds a character that no number has
NotANumber(line) ==
    \E i \in DOMAIN Trim(line) : Trim(line)[i] \notin Digits \cup { "+", "-" }

\* C13: an amount line that is not a number is read as 0: the deposit or
\* withdraw it was typed for calls calculate_wallet_balance not at all,
\* appends nothing, reports the amount as not positive and the menu is shown
\* again.
C13_NonNumericAmountIsZero ==
    [][ (op'.name \in { "deposit", "withdraw" } /\ NotANumber(op'.amount_line))
        => /\ op'.amount = Zero
           /\ result' = NoResult
           /\ events' = <<>>
           /\ transactions' = transactions
           /\ message' = "Amount must be positive"
           /\ pc' = "menu"
      ]_vars

\* "abc" typed for a withdrawal from a wallet that holds funds
C13_Witness ==
    /\ op.name = "withdraw"
    /\ op.amount_line = << "a", "b", "c", "\n" >>
    /\ op.amount = Zero
    /\ message = "Amount must be positive"
    /\ calculate_wallet_balance(transactions, op.wallet_address) = Ok(I64(100))

---------------------------------------------------------------------------
\* Claims about the session as a whole.

\* what the terminal prints when an operation is refused or fails
FailureMessages ==
    { "Amount must be positive", "Insufficient funds", "Error",
      "Error checking balance", "Invalid choice" }

\* C14: no failure ends the session: a step that prints a failure appends
\* nothing and leaves the menu open, and the menu is left only by the step
\* that selects Exit.
C14_OnlyExitEndsSession ==
    [][ /\ message' \in FailureMessages
           => (transactions' = transactions /\ pc' = "menu")
        /\ pc' # "menu" => op'.name = "exit"
      ]_vars

\* the wallet's balance as the sum of its deposits less its withdrawals
Balance(ledger, w) ==
    LET own == Subsequence(ledger, w) IN RunningTotal(own, Len(own))

\* C19: in every state of a session started on the empty ledger,
\* calculate_wallet_balance succeeds for every wallet and its value is not
\* negative.
C19_SessionLedgerValid ==
    \A w \in Wallets :
        /\ calculate_wallet_balance(transactions, w).tag = "Ok"
        /\ LessEq(Zero, calculate_wallet_balance(transactions, w).value)

\* C20: a withdraw of a positive amount a from wallet W is appended exactly
\* when W's balance is at least a, which is exactly when
\* calculate_wallet_balance accepts the ledger with that withdrawal added;
\* and a deposit or withdraw that is appended moves the value of
\* calculate_wallet_balance for W by a and for no other wallet.
C20_WithdrawGuard ==
    [][ LET w     == op'.wallet_address
            a     == op'.amount
            added == transactions' # transactions
            kind  == IF op'.name = "deposit" THEN "Deposit" ELSE "Withdrawal"
        IN  /\ (op'.name = "withdraw" /\ Less(Zero, a))
               => /\ added <=> LessEq(a, Balance(transactions, w))
                  /\ added <=>
                        calculate_wallet_balance(
                            Append(transactions, Transaction("Withdrawal", w, a)), w).tag = "Ok"
            /\ (op'.name \in { "deposit", "withdraw" } /\ added)
               => /\ transactions' = Append(transactions, Transaction(kind, w, a))
                  /\ calculate_wallet_balance(transactions', w) =
                        Ok(IF op'.name = "deposit"
                           THEN Plus(Balance(transactions, w), a)
                           ELSE Minus(Balance(transactions, w), a))
                  /\ \A o \in Wallets \ { w } :
                        calculate_wallet_balance(transactions', o) =
                            calculate_wallet_balance(transactions, o)
      ]_vars

---------------------------------------------------------------------------
\* Claims about calculate_wallet_balance as a function, its log and Display.

\* the place of the first space of s at or after place from, Len(s) + 1 when
\* there is none
NextSpace(s, from) ==
    CHOOSE i \in from..(Len(s) + 1) :
        /\ i = Len(s) + 1 \/ s[i] = " "
        /\ \A j \in from..(i - 1) : s[j] # " "

\* the words of a text: the runs of characters between its spaces
RECURSIVE WordsFrom(_, _)
WordsFrom(s, from) ==
    LET end == NextSpace(s, from)
    IN  IF end > Len(s) THEN << SubSeq(s, from, Len(s)) >>
        ELSE << SubSeq(s, from, end - 1) >> \o WordsFrom(s, end + 1)

Words(s) == WordsFrom(s, 1)

\* C16: a transaction is written as "<Kind> of <amount> to <wallet>", the
\* kind being "Deposit" or "Withdrawal" and the fourth word "to" for both:
\* every printed history line begins with these five words, the amount in
\* decimal, "Deposit of 100 to A" for a Deposit of 100 to A and
\* "Withdrawal of 30 to A" for a Withdrawal of 30 to A.
C16_DisplayFormat ==
    HistoryCalled =>
        \A k \in DOMAIN history :
            LET tx    == history[k].tx
                text  == HistoryLineText(history[k])
                words == Words(text)
            IN  /\ Len(words) = 9
                /\ words[1] = (IF tx.transaction_type = "Deposit"
                               THEN << "D", "e", "p", "o", "s", "i", "t" >>
                               ELSE << "W", "i", "t", "h", "d", "r", "a", "w", "a", "l" >>)
                /\ words[2] = << "o", "f" >>
                /\ ParseI64(words[3]) = [ok |-> TRUE, value |-> tx.amount]
                /\ words[4] = << "t", "o" >>
                /\ words[5] = tx.wallet_address
                /\ tx = Transaction("Deposit", << "A" >>, I64(100))
                   => SubSeq(text, 1, 19) =
                        << "D", "e", "p", "o", "s", "i", "t", " ", "o", "f", " ",
                           "1", "0", "0", " ", "t", "o", " ", "A" >>
                /\ tx = Transaction("Withdrawal", << "A" >>, I64(30))
                   => SubSeq(text, 1, 21) =
                        << "W", "i", "t", "h", "d", "r", "a", "w", "a", "l", " ", "o", "f", " ",
                           "3", "0", " ", "t", "o", " ", "A" >>

\* the history of [Deposit of 100 to A, Withdrawal of 30 to A]
C16_Witness ==
    /\ HistoryCalled
    /\ Len(history) = 2
    /\ history[1].tx = Transaction("Deposit", << "A" >>, I64(100))
    /\ history[2].tx = Transaction("Withdrawal", << "A" >>, I64(30))

\* C17: a failure is not repaired by records appended later: when
\* calculate_wallet_balance fails for the wallet on a ledger, it fails with
\* the same error and payload on every ledger that continues it.
C17_FailureIsFinal ==
    BalanceCalled =>
        \A n \in 0..Len(transactions) :
            LET earlier == calculate_wallet_balance(SubSeq(transactions, 1, n),
                                                    op.wallet_address)
            IN  earlier.tag \in { "InvalidAmount", "InsufficientFunds" }
                => result = earlier

\* a Withdrawal of 30 from the empty wallet, then deposits that would cover it
C17_Witness ==
    /\ BalanceCalled
    /\ Len(Queried) = 3
    /\ Queried[1] = Transaction("Withdrawal", op.wallet_address, I64(30))
    /\ Queried[2] = Transaction("Deposit", op.wallet_address, I64(100))
    /\ Queried[3].transaction_type = "Deposit"
    /\ result = InsufficientFunds(I64(30), Zero)

\* the event the replay logs for record k of s: the error of the first
\* record that breaks a rule, the info of a record that passes
ExpectedEvent(s, k) ==
    IF Less(s[k].amount, Zero)
    THEN [level |-> "ERROR", kind |-> "Invalid transaction amount",
          amount |-> s[k].amount, tx |-> s[k]]
    ELSE IF s[k].transaction_type = "Deposit"
    THEN [level |-> "INFO", kind |-> "Deposit",
          amount |-> s[k].amount, wallet_address |-> s[k].wallet_address]
    ELSE IF Less(RunningTotal(s, k - 1), s[k].amount)
    THEN [level |-> "ERROR", kind |-> "Insufficient funds for withdrawal",
          amount |-> s[k].amount, wallet_address |-> s[k].wallet_address,
          balance |-> RunningTotal(s, k - 1)]
    ELSE [level |-> "INFO", kind |-> "Withdrawal",
          amount |-> s[k].amount, wallet_address |-> s[k].wallet_address]

\* the number of the wallet's records the replay reaches
Reached(s) == IF FirstViolation(s) = 0 THEN Len(s) ELSE FirstViolation(s)

\* the number of events of the last call that are about a record: all but
\* the final event of a call that returned Ok
LoggedRecords == IF result.tag = "Ok" THEN Len(events) - 1 ELSE Len(events)

\* a call that panicked: the info events of two deposits, the second the
\* one whose addition overflowed, and nothing after them
C18_PanickedCall ==
    /\ BalanceCalled
    /\ result = Panic
    /\ Len(events) = 2
    /\ events[1].kind = "Deposit" /\ events[1].amount = I64(30)
    /\ events[2].kind = "Deposit" /\ events[2].amount = I64_MAX

---------------------------------------------------------------------------
\* C21: the two folds agree where calculate_wallet_balance succeeds: on a
\* ledger and wallet for which calculate_wallet_balance returns Ok, every
\* running balance print_transaction_history shows for that wallet is >= 0
\* and the last one is the value calculate_wallet_balance returns; for a
\* wallet with no records the history is empty and the value is 0.
C21_FoldsAgree ==
    LET computed == calculate_wallet_balance(transactions, op.wallet_address)
    IN  (HistoryCalled /\ computed.tag = "Ok") =>
            /\ \A k \in DOMAIN history : LessEq(Zero, history[k].balance)
            /\ history # <<>> => history[Len(history)].balance = computed.value
            /\ Queried = <<>> => history = <<>> /\ computed.value = Zero

\* a history of a deposit and a withdrawal whose last running balance is the
\* balance calculate_wallet_balance returns for the same wallet
C21_Agreement ==
    /\ HistoryCalled
    /\ Len(history) = 2
    /\ history[1].tx.transaction_type = "Deposit"
    /\ history[2].tx.transaction_type = "Withdrawal"
    /\ history[2].balance = I64(70)
    /\ calculate_wallet_balance(transactions, op.wallet_address) = Ok(I64(70))

---------------------------------------------------------------------------
\* the fold over the first k records of the queried wallet: when it returns
\* Ok, its value is the running balance of the fold after record k
FoldUpTo(k) == calculate_wallet_balance(SubSeq(Queried, 1, k), op.wallet_address)

\* the addition or subtraction of record k overflowed: the fold panicked
\* there, or went on with a balance that is not the sum of what it applied
OverflowsAt(k) ==
    \/ FoldUpTo(k) = Panic /\ FoldUpTo(k - 1).tag = "Ok"
    \/ /\ FoldUpTo(k).tag = "Ok"
       /\ FoldUpTo(k).value # Plus(FoldUpTo(k - 1).value, Signed(Queried[k]))

\* C22: after every record the fold of calculate_wallet_balance has applied,
\* 0 <= running balance <= sum of the Deposit amounts applied so far; so a
\* value returned is never negative, and when the sum of the wallet's
\* Deposit amounts fits in an i64 no addition or subtraction of the fold
\* overflows.
C22_BalanceBounds ==
    BalanceCalled =>
        /\ \A k \in 0..Len(Queried) :
              FoldUpTo(k).tag = "Ok"
              => /\ LessEq(Zero, FoldUpTo(k).value)
                 /\ LessEq(FoldUpTo(k).value, DepositsTotal(Queried, k))
        /\ result.tag = "Ok" => LessEq(Zero, result.value)
        /\ FitsI64(DepositsTotal(Queried, Len(Queried)))
           => \A k \in 1..Len(Queried) : ~OverflowsAt(k)

\* a call that succeeds after a withdrawal, with a balance above 0 and below
\* the sum of the deposits
C22_BelowDeposits ==
    /\ BalanceCalled
    /\ Len(Queried) = 3
    /\ Queried[2].transaction_type = "Withdrawal"
    /\ DepositsTotal(Queried, 3) = I64(200)
    /\ result = Ok(I64(170))

====
